---- MODULE Spec2Model ----
(***************************************************************************)
(* A model of worker/src/streams.rs and worker/src/error.rs:               *)
(*   ByteStream         host readable stream -> Stream of Vec<u8>          *)
(*   FixedLengthStream  Stream of Vec<u8> + declared length -> checked     *)
(*   From<FixedLengthStream> for FixedLengthStreamSys  (host handle)       *)
(*   Error              the error enum, its Display and its conversions    *)
(*                                                                         *)
(* TLC's integers are 32 bits wide, so the two machine words of the code   *)
(* (u32 and u64) are modelled by narrower words: U32_MAX and U64_MAX are   *)
(* the largest values of the narrow words, and arithmetic on the counter   *)
(* is done modulo U64_MAX + 1 exactly as u64 arithmetic is done modulo     *)
(* 2^64.                                                                   *)
(***************************************************************************)
EXTENDS Integers, Sequences, FiniteSets, TLC

VARIABLES
    overflow_checks, \* build profile: TRUE = overflow checks on (debug)
    length,          \* FixedLengthStream.length
    bytes_read,      \* FixedLengthStream.bytes_read
    inner_hist,      \* what FixedLengthStream.inner returned, poll by poll
    fls_out,         \* what FixedLengthStream::poll_next returned, poll by poll
    panicked,        \* a poll of the FixedLengthStream panicked
    host_hist,       \* what ByteStream.inner (the host stream) returned
    bs_out,          \* what ByteStream::poll_next returned, poll by poll
    raw,             \* the FixedLengthStreamSys made by From<FixedLengthStream>
    written,         \* the chunks piped into raw.writable(), in order
    writable,        \* raw.writable(): "open", "closed" or "errored"
    pipe_err,        \* the reason raw.writable() was errored with
    rd_pos,          \* how many chunks were read from raw.readable()
    rt_out,          \* what a ByteStream over raw.readable() returned
    trailers,        \* what ByteStream::poll_trailers returned, call by call
    errs,            \* two Error values
    js_vals          \* the JsValues the two Error values were converted into

vars == <<overflow_checks, length, bytes_read, inner_hist, fls_out, panicked,
          host_hist, bs_out, raw, written, writable, pipe_err, rd_pos, rt_out,
          trailers, errs, js_vals>>

fls_vars == <<overflow_checks, length, bytes_read, inner_hist, fls_out, panicked>>
bs_vars == <<host_hist, bs_out>>
pipe_vars == <<raw, written, writable, pipe_err, rd_pos, rt_out>>
err_vars == <<errs, js_vals>>

(***************************************************************************)
(* Bounds of the model.                                                    *)
(***************************************************************************)
\* largest value of the narrow word standing for u32
U32_MAX == 3
\* largest value of the narrow word standing for u64
U64_MAX == 7
\* polls made of one stream in a run
MaxPolls == 3
\* longest chunk a stream yields
MaxChunkLen == 3
\* calls of poll_trailers in a run
MaxTrailerPolls == 1

(***************************************************************************)
(* Values.                                                                 *)
(***************************************************************************)
\* the first byte of a chunk; the following bytes count up from it
FirstBytes == {10, 20}

\* a Vec<u8> of n bytes
vec(n, b) == [i \in 1..n |-> b + i - 1]

Chunks == {vec(n, b) : n \in 0..MaxChunkLen, b \in FirstBytes}

\* a value of the Error enum: the variant, its string and its u16
MkError(kind, msg, status) == [kind |-> kind, msg |-> msg, status |-> status]

NoError == MkError("-", "", 0)

\* <Error as Display>::to_string, the #[error("...")] templates (the
\* backquotes of the BindingError template are written as quotes)
to_string(e) ==
    CASE e.kind = "BadEncoding" -> "content-type mismatch"
      [] e.kind = "BodyUsed" -> "body has already been read"
      [] e.kind = "Json" -> e.msg \o " (status: " \o ToString(e.status) \o ")"
      [] e.kind = "JsError" -> "Javascript error: " \o e.msg
      [] e.kind = "BindingError" -> "no binding found for '" \o e.msg \o "'"
      [] e.kind = "RouteNoDataError" -> "route has no corresponding shared data"
      [] e.kind = "InvalidStatusCode" -> "invalid status code: " \o ToString(e.status)
      [] e.kind = "RouteInsertError" -> "failed to insert route: " \o e.msg
      [] e.kind = "RustError" -> "Serde Error: " \o e.msg
      [] e.kind = "SerdeJsonError" -> "Serde Error: " \o e.msg
      [] e.kind = "SerdeWasmBindgenError" -> "Serde WASM bindgen Error: " \o e.msg
      [] e.kind = "KvError" -> "Kv Error: " \o e.msg
      [] e.kind = "UrlParseError" -> "url parse error: " \o e.msg

\* impl From<String> for Error
Error_from_String(a) == MkError("RustError", a, 0)

\* a host value (JsValue): a Uint8Array of bytes, a string, or an Error
\* object with a name and a message
JsUint8Array(bytes) == [type |-> "Uint8Array", bytes |-> bytes, name |-> "", message |-> ""]
JsString(s) == [type |-> "String", bytes |-> <<>>, name |-> "", message |-> s]
JsErrorObject(name, message) == [type |-> "Error", bytes |-> <<>>, name |-> name, message |-> message]
JsUndefined == [type |-> "Undefined", bytes |-> <<>>, name |-> "", message |-> ""]

\* the host's String(value), bound as to_string in From<JsValue> for Error
js_String(value) ==
    CASE value.type = "String" -> value.message
      [] value.type = "Error" ->
            IF value.message = "" THEN value.name
            ELSE IF value.name = "" THEN value.message
            ELSE value.name \o ": " \o value.message
      [] value.type = "Undefined" -> "undefined"

\* mutant of Error_from_JsValue: the value's message, not its rendering
Error_from_JsValue_message(value) == MkError("JsError", value.message, 0)

\* impl From<JsValue> for Error
Error_from_JsValue(value) == MkError("JsError", js_String(value), 0)

\* Poll<Option<Result<Vec<u8>, Error>>>: Pending, Ready(None),
\* Ready(Some(Ok(v))), Ready(Some(Err(e)))
Pending == [poll |-> "Pending", val |-> <<>>, err |-> NoError]
ReadyNone == [poll |-> "None", val |-> <<>>, err |-> NoError]
ReadyOk(v) == [poll |-> "Ok", val |-> v, err |-> NoError]
ReadyErr(e) == [poll |-> "Err", val |-> <<>>, err |-> e]

\* Poll<Option<Result<JsValue, JsValue>>>, the item of the host stream
HostPending == [poll |-> "Pending", val |-> JsUndefined, err |-> JsUndefined]
HostNone == [poll |-> "None", val |-> JsUndefined, err |-> JsUndefined]
HostOk(v) == [poll |-> "Ok", val |-> v, err |-> JsUndefined]
HostErr(e) == [poll |-> "Err", val |-> JsUndefined, err |-> e]

(***************************************************************************)
(* FixedLengthStream.                                                      *)
(***************************************************************************)
\* the result of one poll: what it returns, the counter after it, and
\* whether it panicked instead of returning
PollResult(ret, br, panic) == [ret |-> ret, bytes_read |-> br, panic |-> panic]

\* the format!(...) of both length checks
length_mismatch(len, br) ==
    Error_from_String(
        "fixed length stream had different length than expected (expected "
        \o ToString(len) \o ", got " \o ToString(br) \o ")")

\* the counter after `*this.bytes_read += chunk.len() as u64`
add_u64(br, n) == (br + n) % (U64_MAX + 1)

\* mutant of poll_next_chunk: the check is `>=` instead of `>`
poll_next_chunk_ge(len, br, chunk, checks) ==
    IF checks /\ br + Len(chunk) > U64_MAX
    THEN PollResult(Pending, br, TRUE)
    ELSE IF add_u64(br, Len(chunk)) >= len
         THEN PollResult(ReadyErr(length_mismatch(len, add_u64(br, Len(chunk)))),
                         add_u64(br, Len(chunk)), FALSE)
         ELSE PollResult(ReadyOk(chunk), add_u64(br, Len(chunk)), FALSE)

\* mutant of poll_next_chunk: the check is made before the chunk is counted
poll_next_chunk_late(len, br, chunk, checks) ==
    IF checks /\ br + Len(chunk) > U64_MAX
    THEN PollResult(Pending, br, TRUE)
    ELSE IF br > len
         THEN PollResult(ReadyErr(length_mismatch(len, br)),
                         add_u64(br, Len(chunk)), FALSE)
         ELSE PollResult(ReadyOk(chunk), add_u64(br, Len(chunk)), FALSE)

\* mutant of poll_next_chunk: a rejected chunk is not counted
poll_next_chunk_uncounted(len, br, chunk, checks) ==
    IF checks /\ br + Len(chunk) > U64_MAX
    THEN PollResult(Pending, br, TRUE)
    ELSE IF add_u64(br, Len(chunk)) > len
         THEN PollResult(ReadyErr(length_mismatch(len, add_u64(br, Len(chunk)))),
                         br, FALSE)
         ELSE PollResult(ReadyOk(chunk), add_u64(br, Len(chunk)), FALSE)

\* poll_next, inner yields Some(Ok(chunk)): with overflow checks the
\* addition panics when the sum does not fit, without them it wraps
poll_next_chunk(len, br, chunk, checks) ==
    IF checks /\ br + Len(chunk) > U64_MAX
    THEN PollResult(Pending, br, TRUE)
    ELSE IF add_u64(br, Len(chunk)) > len
         THEN PollResult(ReadyErr(length_mismatch(len, add_u64(br, Len(chunk)))),
                         add_u64(br, Len(chunk)), FALSE)
         ELSE PollResult(ReadyOk(chunk), add_u64(br, Len(chunk)), FALSE)

\* mutant of poll_next_err: the error path makes the length check too
poll_next_err_checked(len, br, err) ==
    IF br > len
    THEN PollResult(ReadyErr(length_mismatch(len, br)), br, FALSE)
    ELSE PollResult(ReadyErr(err), br, FALSE)

\* poll_next, inner yields Some(Err(err))
poll_next_err(len, br, err) == PollResult(ReadyErr(err), br, FALSE)

\* mutant of poll_next_none: the end is checked with `>` instead of `!=`
poll_next_none_gt(len, br) ==
    IF br > len
    THEN PollResult(ReadyErr(length_mismatch(len, br)), br, FALSE)
    ELSE PollResult(ReadyNone, br, FALSE)

\* mutant of poll_next_none: only a short stream is an error at the end
poll_next_none_lt(len, br) ==
    IF br < len
    THEN PollResult(ReadyErr(length_mismatch(len, br)), br, FALSE)
    ELSE PollResult(ReadyNone, br, FALSE)

\* poll_next, inner yields None
poll_next_none(len, br) ==
    IF br # len
    THEN PollResult(ReadyErr(length_mismatch(len, br)), br, FALSE)
    ELSE PollResult(ReadyNone, br, FALSE)

\* mutant of FixedLengthStream_poll_next: without ready!, a Pending inner
\* stream is taken for one that ended
FixedLengthStream_poll_next_unready(len, br, res, checks) ==
    CASE res.poll = "Pending" -> poll_next_none(len, br)
      [] res.poll = "Ok" -> poll_next_chunk(len, br, res.val, checks)
      [] res.poll = "Err" -> poll_next_err(len, br, res.err)
      [] res.poll = "None" -> poll_next_none(len, br)

\* FixedLengthStream::poll_next on what the inner stream's poll returned
FixedLengthStream_poll_next(len, br, res, checks) ==
    CASE res.poll = "Pending" -> PollResult(Pending, br, FALSE)
      [] res.poll = "Ok" -> poll_next_chunk(len, br, res.val, checks)
      [] res.poll = "Err" -> poll_next_err(len, br, res.err)
      [] res.poll = "None" -> poll_next_none(len, br)

\* the errors an inner stream yields
InnerErrors == {MkError("JsError", "TypeError: boom", 0), MkError("BodyUsed", "", 0)}

\* what a poll of the inner stream can return
InnerResults ==
    {Pending, ReadyNone} \cup {ReadyOk(c) : c \in Chunks} \cup {ReadyErr(e) : e \in InnerErrors}

\* FixedLengthStream::wrap(stream, length)
wrap(len) ==
    /\ length = len
    /\ bytes_read = 0
    /\ inner_hist = <<>>
    /\ fls_out = <<>>
    /\ panicked = FALSE

\* one call of FixedLengthStream::poll_next by the consumer
FLS_poll_next ==
    /\ ~panicked
    /\ Len(inner_hist) < MaxPolls
    /\ \E res \in InnerResults :
         LET r == FixedLengthStream_poll_next(length, bytes_read, res, overflow_checks) IN
           /\ inner_hist' = Append(inner_hist, res)
           /\ bytes_read' = r.bytes_read
           /\ panicked' = r.panic
           /\ fls_out' = IF r.panic THEN fls_out ELSE Append(fls_out, r.ret)
    /\ UNCHANGED <<overflow_checks, length, bs_vars, pipe_vars, trailers, err_vars>>

\* no FixedLengthStreamSys yet
NoRaw == [ctor |-> "-", length |-> 0]

\* no conversion to a host handle was made
NoPipe ==
    /\ raw = NoRaw
    /\ written = <<>>
    /\ writable = "open"
    /\ pipe_err = JsUndefined
    /\ rd_pos = 0
    /\ rt_out = <<>>

\* no Error value is being converted
NoErrs ==
    /\ errs = <<NoError, NoError>>
    /\ js_vals = <<>>

Init ==
    /\ overflow_checks \in BOOLEAN
    /\ \E len \in 0..U64_MAX : wrap(len)
    /\ host_hist = <<>>
    /\ bs_out = <<>>
    /\ trailers = <<>>
    /\ NoPipe
    /\ NoErrs

Next == FLS_poll_next

\* a FixedLengthStream over any inner stream, polled by its consumer
Spec == Init /\ [][Next]_vars

(***************************************************************************)
(* ByteStream.                                                             *)
(***************************************************************************)
\* Uint8Array::from(JsValue): an unchecked cast, the host value itself
Uint8Array_from(value) == value

\* mutant of to_vec: the bytes are copied in reverse
to_vec_reversed(array) ==
    IF array.type = "Uint8Array"
    THEN [i \in 1..Len(array.bytes) |-> array.bytes[Len(array.bytes) + 1 - i]]
    ELSE [i \in 1..Len(array.message) |-> 0]

\* Uint8Array::to_vec: a Vec of the array's bytes; of a value that is no
\* Uint8Array but has a length (a string of non-digits), as many zero bytes
to_vec(array) ==
    IF array.type = "Uint8Array" THEN array.bytes
    ELSE [i \in 1..Len(array.message) |-> 0]

\* poll_next, the host stream yields Some(Ok(value))
ByteStream_poll_next_ok(value) == ReadyOk(to_vec(Uint8Array_from(value)))

\* poll_next, the host stream yields Some(Err(value))
ByteStream_poll_next_err(value) ==
    IF to_string(Error_from_JsValue(value)) = "Error: aborted"
    THEN ReadyNone
    ELSE ReadyErr(Error_from_JsValue(value))

\* ByteStream::poll_next on what the host stream's poll returned
ByteStream_poll_next(res) ==
    CASE res.poll = "Pending" -> Pending
      [] res.poll = "None" -> ReadyNone
      [] res.poll = "Ok" -> ByteStream_poll_next_ok(res.val)
      [] res.poll = "Err" -> ByteStream_poll_next_err(res.err)

\* the values the host raises
HostErrors ==
    { JsErrorObject("Error", "aborted"), JsErrorObject("TypeError", "boom"),
      JsErrorObject("Error", ""), JsString("Error: aborted"), JsString("aborted") }

\* the values the host yields as chunks
HostValues == {JsUint8Array(c) : c \in Chunks} \cup {JsString("abc")}

\* what a poll of the host stream can return
HostResults ==
    {HostPending, HostNone} \cup {HostOk(v) : v \in HostValues}
        \cup {HostErr(e) : e \in HostErrors}

\* one call of ByteStream::poll_next by the consumer
BS_poll_next ==
    /\ Len(host_hist) < MaxPolls
    /\ \E res \in HostResults :
         /\ host_hist' = Append(host_hist, res)
         /\ bs_out' = Append(bs_out, ByteStream_poll_next(res))
    /\ UNCHANGED <<fls_vars, pipe_vars, trailers, err_vars>>

\* Poll<Result<Option<HeaderMap>, Error>>: Ready(Ok(None)), no trailers
TrailersReadyNone == [poll |-> "Ready", trailers |-> "None", err |-> NoError]

\* Poll<Result<Option<HeaderMap>, Error>>: Pending
TrailersPending == [poll |-> "Pending", trailers |-> "None", err |-> NoError]

\* mutant of poll_trailers: the trailers are never ready
poll_trailers_pending == TrailersPending

\* <ByteStream as http_body::Body>::poll_trailers
poll_trailers == TrailersReadyNone

\* one call of poll_trailers, after `at` polls of the stream
BS_poll_trailers ==
    /\ Len(trailers) < MaxTrailerPolls
    /\ trailers' = Append(trailers, [at |-> Len(host_hist), ret |-> poll_trailers])
    /\ UNCHANGED <<fls_vars, bs_vars, pipe_vars, err_vars>>

\* ByteStream::new(inner)
InitByte ==
    /\ overflow_checks = FALSE
    /\ wrap(0)
    /\ host_hist = <<>>
    /\ bs_out = <<>>
    /\ trailers = <<>>
    /\ NoPipe
    /\ NoErrs

NextByte == BS_poll_next \/ BS_poll_trailers

\* a ByteStream over a host stream, polled by its consumer
SpecByte == InitByte /\ [][NextByte]_vars

\* one call of poll_next of a FixedLengthStream whose inner stream is a
\* ByteStream over a host stream
Chain_poll_next ==
    /\ ~panicked
    /\ Len(host_hist) < MaxPolls
    /\ \E res \in HostResults :
         LET item == ByteStream_poll_next(res)
             r == FixedLengthStream_poll_next(length, bytes_read, item, overflow_checks)
         IN
           /\ host_hist' = Append(host_hist, res)
           /\ bs_out' = Append(bs_out, item)
           /\ inner_hist' = Append(inner_hist, item)
           /\ bytes_read' = r.bytes_read
           /\ panicked' = r.panic
           /\ fls_out' = IF r.panic THEN fls_out ELSE Append(fls_out, r.ret)
    /\ UNCHANGED <<overflow_checks, length, pipe_vars, trailers, err_vars>>

NextChain == Chain_poll_next

\* FixedLengthStream::wrap(ByteStream::new(inner), length), polled by its
\* consumer
SpecChain == Init /\ [][NextChain]_vars

(***************************************************************************)
(* From<FixedLengthStream> for FixedLengthStreamSys: the host handle, the  *)
(* pipe into its writable side, and a ByteStream over its readable side.   *)
(***************************************************************************)
\* `stream.length as u32`
as_u32(n) == n % (U32_MAX + 1)

\* the host primitive: FixedLengthStreamSys::new(length as u32) or
\* FixedLengthStreamSys::new_big_int(BigInt::from(length))
new_raw(len) ==
    IF len < U32_MAX
    THEN [ctor |-> "new", length |-> as_u32(len)]
    ELSE [ctor |-> "new_big_int", length |-> len]

\* mutant of chunk_to_array: the array is made and the chunk not copied
chunk_to_array_uncopied(chunk) == JsUint8Array([i \in 1..Len(chunk) |-> 0])

\* map_ok: a Uint8Array of chunk.len() bytes, the chunk copied into it
chunk_to_array(chunk) ==
    LET array == [i \in 1..Len(chunk) |-> 0]
    IN  JsUint8Array([i \in DOMAIN array |-> chunk[i]])

\* mutant of JsValue_from_Error: the error's string, not its rendering
JsValue_from_Error_msg(e) == JsString(e.msg)

\* impl From<Error> for JsValue, used by map_err
JsValue_from_Error(e) == JsString(to_string(e))

\* the bytes of a sequence of Uint8Arrays
RECURSIVE ByteLength(_)
ByteLength(arrays) ==
    IF arrays = <<>> THEN 0
    ELSE Len(arrays[1].bytes) + ByteLength(Tail(arrays))

\* the error of the host's fixed-length stream when the bytes written to
\* it are more or fewer than its length
HostLengthError == JsErrorObject("TypeError", "FixedLengthStream length mismatch")

\* From<FixedLengthStream>::from: the host primitive is made and the pipe
\* into its writable side started
from ==
    /\ raw = NoRaw
    /\ raw' = new_raw(length)
    /\ UNCHANGED <<fls_vars, bs_vars, written, writable, pipe_err, rd_pos, rt_out,
                   trailers, err_vars>>

\* the pipe pulls the ReadableStream made of js_stream: the stream is
\* polled; a chunk is written to raw.writable(), an error errors it, the
\* end closes it; after an error or the end the stream is not polled again
pipe_to ==
    /\ raw # NoRaw
    /\ writable = "open"
    /\ ~panicked
    /\ Len(inner_hist) < MaxPolls
    /\ \E res \in InnerResults :
         LET r == FixedLengthStream_poll_next(length, bytes_read, res, overflow_checks) IN
           /\ inner_hist' = Append(inner_hist, res)
           /\ bytes_read' = r.bytes_read
           /\ panicked' = r.panic
           /\ fls_out' = IF r.panic THEN fls_out ELSE Append(fls_out, r.ret)
           /\ IF r.panic \/ r.ret.poll = "Pending"
              THEN UNCHANGED <<written, writable, pipe_err>>
              ELSE IF r.ret.poll = "Ok"
              THEN /\ written' = Append(written, chunk_to_array(r.ret.val))
                   /\ IF ByteLength(written') > raw.length
                      THEN writable' = "errored" /\ pipe_err' = HostLengthError
                      ELSE UNCHANGED <<writable, pipe_err>>
              ELSE IF r.ret.poll = "Err"
              THEN /\ writable' = "errored"
                   /\ pipe_err' = JsValue_from_Error(r.ret.err)
                   /\ UNCHANGED written
              ELSE /\ writable' = "closed"
                   /\ UNCHANGED <<written, pipe_err>>
    /\ UNCHANGED <<overflow_checks, length, bs_vars, raw, rd_pos, rt_out,
                   trailers, err_vars>>

\* the reader of raw.readable() has got the end or an error
ReaderDone ==
    /\ rt_out # <<>>
    /\ rt_out[Len(rt_out)].poll \in {"None", "Err"}

\* what raw.readable() gives a read: the error it was errored with, the
\* next chunk written, or the end (an error when the bytes written are
\* not raw.length); nothing yet is Pending
readable_read ==
    IF writable = "errored" THEN HostErr(pipe_err)
    ELSE IF rd_pos < Len(written) THEN HostOk(written[rd_pos + 1])
    ELSE IF writable = "closed"
         THEN IF ByteLength(written) = raw.length THEN HostNone
              ELSE HostErr(HostLengthError)
         ELSE HostPending

\* one call of poll_next of a ByteStream over raw.readable() that does
\* not return Pending
RT_poll_next ==
    /\ raw # NoRaw
    /\ ~ReaderDone
    /\ readable_read # HostPending
    /\ rt_out' = Append(rt_out, ByteStream_poll_next(readable_read))
    /\ rd_pos' = IF readable_read.poll = "Ok" THEN rd_pos + 1 ELSE rd_pos
    /\ UNCHANGED <<fls_vars, bs_vars, raw, written, writable, pipe_err,
                   trailers, err_vars>>

NextPipe == from \/ pipe_to \/ RT_poll_next

\* a FixedLengthStream converted to a host handle whose readable side is
\* read through a ByteStream
SpecPipe == Init /\ [][NextPipe]_vars

(***************************************************************************)
(* Error into JsValue.                                                     *)
(***************************************************************************)
\* the strings carried by the Error values drawn
ErrorMessages == {"boom", "x"}

\* the u16 carried by the Error values drawn
ErrorStatuses == {400, 500}

\* values of the Error enum, of every variant
Errors ==
    {MkError(k, "", 0) : k \in {"BadEncoding", "BodyUsed", "RouteNoDataError"}}
    \cup {MkError("Json", m, st) : m \in ErrorMessages, st \in ErrorStatuses}
    \cup {MkError("InvalidStatusCode", "", st) : st \in ErrorStatuses}
    \cup {MkError(k, m, 0) :
            k \in {"JsError", "BindingError", "RouteInsertError", "RustError",
                   "SerdeJsonError", "SerdeWasmBindgenError", "KvError",
                   "UrlParseError"},
            m \in ErrorMessages}

\* JsValue::from(e) of both Error values
Error_into_JsValue ==
    /\ js_vals = <<>>
    /\ js_vals' = <<JsValue_from_Error(errs[1]), JsValue_from_Error(errs[2])>>
    /\ UNCHANGED <<fls_vars, bs_vars, pipe_vars, trailers, errs>>

InitErr ==
    /\ overflow_checks = FALSE
    /\ wrap(0)
    /\ host_hist = <<>>
    /\ bs_out = <<>>
    /\ trailers = <<>>
    /\ NoPipe
    /\ errs \in Errors \X Errors
    /\ js_vals = <<>>

NextErr == Error_into_JsValue

\* two Error values converted into host values
SpecErr == InitErr /\ [][NextErr]_vars

(***************************************************************************)
(* Properties.                                                             *)
(***************************************************************************)
\* the polls of a history that returned Ready
NonPending(h) == SelectSeq(h, LAMBDA r : r.poll # "Pending")

\* all but the last element
Front(h) == SubSeq(h, 1, Len(h) - 1)

\* every element is Some(Ok(chunk))
AllChunks(h) == \A i \in 1..Len(h) : h[i].poll = "Ok"

\* the sum of the chunk lengths, as a number (not a machine word)
RECURSIVE TotalLen(_)
TotalLen(h) == IF h = <<>> THEN 0 ELSE Len(h[1].val) + TotalLen(Tail(h))

\* the bytes of the chunks, concatenated
RECURSIVE Content(_)
Content(h) ==
    IF h = <<>> THEN <<>>
    ELSE (IF h[1].poll = "Ok" THEN h[1].val ELSE <<>>) \o Content(Tail(h))

\* s is a prefix of t
IsPrefix(s, t) == Len(s) <= Len(t) /\ s = SubSeq(t, 1, Len(s))

\* Some(Err(RustError)) whose message reports `expected` and `actual`
Mismatch(expected, actual) ==
    ReadyErr(MkError("RustError",
        "fixed length stream had different length than expected (expected "
        \o ToString(expected) \o ", got " \o ToString(actual) \o ")", 0))

\* the inner stream yielded chunks summing to the declared length, then None
InnerExact ==
    LET h == NonPending(inner_hist) IN
      /\ h # <<>>
      /\ h[Len(h)] = ReadyNone
      /\ AllChunks(Front(h))
      /\ TotalLen(Front(h)) = length

\* C1: when the inner stream yields chunks whose lengths sum to exactly the
\* declared length and then ends, the wrapper has yielded these chunks
\* unchanged and in order, then None, and no error (and has not panicked).
C1_ExactLength ==
    InnerExact => (~panicked /\ NonPending(fls_out) = NonPending(inner_hist))

\* C1 witness: two non-empty chunks summing to the declared length, then
\* the end, all three passed on.
C1_Witness ==
    /\ InnerExact
    /\ inner_hist = NonPending(inner_hist)
    /\ Len(inner_hist) = 3
    /\ Len(inner_hist[1].val) > 0 /\ Len(inner_hist[2].val) > 0
    /\ fls_out = inner_hist

\* the inner stream yielded only chunks and the last one is the first to
\* take the sum of the lengths above the declared length
InnerOverrun ==
    LET h == NonPending(inner_hist) IN
      /\ h # <<>>
      /\ AllChunks(h)
      /\ TotalLen(Front(h)) <= length
      /\ TotalLen(h) > length

\* the wrapper yielded the chunks before the last, then the mismatch error
\* reporting the declared length and the sum of all the chunk lengths
OverrunReported ==
    LET h == NonPending(inner_hist) IN
      /\ ~panicked
      /\ NonPending(fls_out) = Front(h) \o <<Mismatch(length, TotalLen(h))>>

\* C2 as stated: for every declared length and every chunk sequence whose
\* cumulative length first exceeds it at some chunk, the chunks before are
\* yielded and the offending chunk is answered by one RustError reporting
\* expected = the declared length and actual = the cumulative length.
C2_Overrun_AsStated == InnerOverrun => OverrunReported

\* C2 amended: the same, for cumulative lengths that fit the counter's word.
C2_Overrun == (InnerOverrun /\ TotalLen(NonPending(inner_hist)) <= U64_MAX) => OverrunReported

\* C2 witness: two chunks yielded and the third, which exceeds the declared
\* length, answered by the error.
C2_Witness ==
    /\ InnerOverrun
    /\ inner_hist = NonPending(inner_hist)
    /\ Len(inner_hist) = 3
    /\ TotalLen(inner_hist) <= U64_MAX
    /\ Len(inner_hist[1].val) > 0
    /\ OverrunReported

\* the inner stream yielded chunks summing to less than the declared
\* length, then None
InnerShort ==
    LET h == NonPending(inner_hist) IN
      /\ h # <<>>
      /\ h[Len(h)] = ReadyNone
      /\ AllChunks(Front(h))
      /\ TotalLen(Front(h)) < length

\* C3: when the inner stream ends with a total T below the declared length
\* L, the wrapper has yielded all the chunks unchanged and then one
\* RustError reporting expected L and actual T, not the end.
C3_ShortStream ==
    InnerShort =>
        LET h == NonPending(inner_hist) IN
          /\ ~panicked
          /\ NonPending(fls_out) = Front(h) \o <<Mismatch(length, TotalLen(Front(h)))>>

\* C3 witness: two chunks, then the end short of the declared length,
\* answered by the error.
C3_Witness ==
    /\ InnerShort
    /\ inner_hist = NonPending(inner_hist)
    /\ Len(inner_hist) = 3
    /\ TotalLen(Front(inner_hist)) > 0
    /\ fls_out[3].poll = "Err"

\* C4: a poll in which the inner stream yields an error returns that very
\* error and leaves the counter as it was, whatever the counter and the
\* declared length are.
C4_ErrorPropagated ==
    [][(inner_hist' # inner_hist /\ inner_hist'[Len(inner_hist')].poll = "Err")
         => /\ fls_out' = Append(fls_out, inner_hist'[Len(inner_hist')])
            /\ bytes_read' = bytes_read
            /\ ~panicked']_vars

\* C4 witness: an inner error passed on while the counter is above the
\* declared length.
C4_Witness ==
    /\ Len(inner_hist) = 3
    /\ Len(fls_out) = 3
    /\ inner_hist[3].poll = "Err"
    /\ fls_out[3] = inner_hist[3]
    /\ bytes_read > length

\* C5 as stated: a poll in which the host stream raises a value whose
\* rendering is exactly "Error: aborted" returns the end of the sequence.
C5_AbortedIsEnd ==
    \A i \in 1..Len(host_hist) :
        (host_hist[i].poll = "Err" /\ js_String(host_hist[i].err) = "Error: aborted")
            => bs_out[i] = ReadyNone

\* C6: a poll in which the host stream raises a value whose rendering is
\* not "Error: aborted" returns one error, a JsError carrying the host's
\* rendering of the value.
C6_HostErrorSurfaced ==
    \A i \in 1..Len(host_hist) :
        (host_hist[i].poll = "Err" /\ js_String(host_hist[i].err) # "Error: aborted")
            => bs_out[i] = ReadyErr(MkError("JsError", js_String(host_hist[i].err), 0))

\* C6 witness: after a chunk, the host raises TypeError("boom") and the
\* poll returns JsError("TypeError: boom").
C6_Witness ==
    /\ Len(host_hist) = 2
    /\ host_hist[1].poll = "Ok"
    /\ host_hist[2] = HostErr(JsErrorObject("TypeError", "boom"))
    /\ bs_out[2] = ReadyErr(MkError("JsError", "TypeError: boom", 0))

\* the chunks a ByteStream over raw.readable() returned are two or more
\* bytes in two chunks
TwoChunksRead ==
    /\ Len(rt_out) = 3
    /\ rt_out[1].poll = "Ok" /\ Len(rt_out[1].val) > 0
    /\ rt_out[2].poll = "Ok" /\ Len(rt_out[2].val) > 0

IsMismatchAt(i) == fls_out[i].poll = "Err" /\ inner_hist[i].poll # "Err"

\* C8 as stated: once the wrapper has yielded a length-mismatch error, no
\* later poll yields a chunk, whatever the inner stream yields.
C8_MismatchIsFatal ==
    \A i \in 1..Len(fls_out) : \A j \in 1..Len(fls_out) :
        (i < j /\ IsMismatchAt(i)) => fls_out[j].poll # "Ok"

\* C9 as stated: the host gets the declared length, through the standard
\* constructor for every length up to the largest standard-range value
\* and through the big-integer constructor only above it.
C9_SelectedByMagnitude ==
    raw # NoRaw =>
        /\ raw.length = length
        /\ length <= U32_MAX => raw.ctor = "new"
        /\ raw.ctor = "new_big_int" => length > U32_MAX

\* C10 as stated: a host value that is no byte array makes the poll that
\* retrieves it return a JsError.
C10_CoercionFailureIsJsError ==
    \A i \in 1..Len(host_hist) :
        (host_hist[i].poll = "Ok" /\ host_hist[i].val.type # "Uint8Array")
            => (bs_out[i].poll = "Err" /\ bs_out[i].err.kind = "JsError")

\* C11 as stated: two Error values that differ in kind or in context are
\* never converted into the same host value.
C11_ConversionIsLossless ==
    (js_vals # <<>> /\ errs[1] # errs[2]) => js_vals[1] # js_vals[2]

\* C12: every call of poll_trailers, in whatever state the stream is,
\* returns Ready(Ok(None)) at once and neither polls the host stream nor
\* changes what the stream has returned.
C12_NoTrailers ==
    [][trailers' # trailers
         => /\ trailers'[Len(trailers')].ret = TrailersReadyNone
            /\ host_hist' = host_hist
            /\ bs_out' = bs_out]_vars

\* C12 witness: poll_trailers called after the stream returned a chunk and
\* then an error, and the stream polled again after it.
C12_Witness ==
    /\ Len(trailers) = 1
    /\ trailers[1].at = 2
    /\ trailers[1].ret = TrailersReadyNone
    /\ Len(bs_out) = 3
    /\ bs_out[1].poll = "Ok"
    /\ bs_out[2].poll = "Err"

\* C13 as stated: after any polls the counter is the exact sum of the
\* lengths of the chunks received from the inner stream, rejected chunks
\* included, for every sequence of chunk lengths.
C13_CounterIsSum_AsStated == bytes_read = TotalLen(inner_hist)

\* C13 amended: the same, for sequences whose sum fits the counter's word.
C13_CounterIsSum ==
    TotalLen(inner_hist) <= U64_MAX
        => (~panicked /\ bytes_read = TotalLen(inner_hist))

\* C13 witness: a chunk passed on, a chunk rejected and a third chunk, all
\* three counted.
C13_Witness ==
    /\ Len(fls_out) = 3
    /\ AllChunks(inner_hist)
    /\ fls_out[1].poll = "Ok" /\ Len(fls_out[1].val) > 0
    /\ fls_out[2].poll = "Err"
    /\ Len(inner_hist[3].val) > 0
    /\ TotalLen(inner_hist) <= U64_MAX
    /\ bytes_read = TotalLen(inner_hist)

\* the ByteStream returns a chunk exactly in the polls in which the host
\* stream yields one, and the bytes of a byte array unchanged
ByteStreamInOrder ==
    \A i \in 1..Len(bs_out) :
        /\ bs_out[i].poll = "Ok" <=> host_hist[i].poll = "Ok"
        /\ (host_hist[i].poll = "Ok" /\ host_hist[i].val.type = "Uint8Array")
              => bs_out[i].val = host_hist[i].val.bytes

\* the wrapper returns a chunk only in a poll in which the ByteStream
\* returns it, the same chunk, and skips no chunk between two it returns
WrapperInOrder ==
    /\ \A i \in 1..Len(fls_out) : fls_out[i].poll = "Ok" => fls_out[i] = bs_out[i]
    /\ \A i \in 1..Len(fls_out) : \A k \in 1..Len(fls_out) : \A j \in 1..Len(fls_out) :
          (i < k /\ k < j /\ fls_out[i].poll = "Ok" /\ fls_out[j].poll = "Ok"
             /\ bs_out[k].poll = "Ok") => fls_out[k].poll = "Ok"

YieldedArrays ==
    LET ok == SelectSeq(fls_out, LAMBDA r : r.poll = "Ok")
    IN  [i \in 1..Len(ok) |-> JsUint8Array(ok[i].val)]

\* C15: the chunks written to the host pipe are the chunks the wrapper
\* yielded, in order; when the wrapper yields an error the pipe is errored
\* with the rendered string of that error and the wrapper is not polled
\* again, so no chunk is written after it.
C15_PipeCarriesYield ==
    /\ written = YieldedArrays
    /\ \A i \in 1..Len(fls_out) :
          fls_out[i].poll = "Err" =>
              /\ writable = "errored"
              /\ pipe_err = JsString(to_string(fls_out[i].err))
              /\ i = Len(fls_out)

\* C15 witness: a chunk written, then the wrapper's length-mismatch error
\* put on the pipe.
C15_Witness ==
    /\ Len(fls_out) = 2
    /\ fls_out[1].poll = "Ok" /\ Len(fls_out[1].val) > 0
    /\ written = <<JsUint8Array(fls_out[1].val)>>
    /\ fls_out[2].poll = "Err" /\ inner_hist[2].poll = "Ok"
    /\ writable = "errored"
    /\ pipe_err = JsString(to_string(fls_out[2].err))

\* C16: a poll in which the host stream is not ready returns Pending from
\* the ByteStream and from the FixedLengthStream wrapping it, yields no
\* item and leaves the counter as it was; no poll changes the declared
\* length.
C16_PendingSuspends ==
    [][/\ length' = length
       /\ (host_hist' # host_hist /\ host_hist'[Len(host_hist')].poll = "Pending")
            => /\ bs_out' = Append(bs_out, Pending)
               /\ fls_out' = Append(fls_out, Pending)
               /\ bytes_read' = bytes_read
               /\ ~panicked']_vars

\* C16 witness: after a chunk was counted, a poll finds the host stream
\* not ready and returns Pending, the counter kept.
C16_Witness ==
    /\ Len(host_hist) = 2
    /\ host_hist[1].poll = "Ok"
    /\ host_hist[2] = HostPending
    /\ bs_out[2] = Pending
    /\ fls_out[2] = Pending
    /\ bytes_read > 0
    /\ bytes_read = Len(bs_out[1].val)

\* C17 as stated: in every reachable state, whatever the inner stream
\* yields and however often the wrapper is polled, the bytes the wrapper
\* has yielded as chunks are at most the declared length.
C17_YieldWithinLength_AsStated == TotalLen(fls_out) <= length

\* C17 amended: the same, while the lengths of the chunks received from
\* the inner stream sum to a value that fits the counter's word.
C17_YieldWithinLength ==
    TotalLen(inner_hist) <= U64_MAX => TotalLen(fls_out) <= length

\* C17 witness: the wrapper has yielded exactly the declared length, then
\* rejected a chunk, and was polled again after the error.
C17_Witness ==
    /\ Len(fls_out) = 3
    /\ fls_out[1].poll = "Ok"
    /\ length > 0
    /\ TotalLen(fls_out) = length
    /\ fls_out[2].poll = "Err" /\ inner_hist[2].poll = "Ok"
    /\ inner_hist[3].poll = "Ok"
    /\ TotalLen(inner_hist) <= U64_MAX

\* a poll made with the counter above the declared length polls the inner
\* stream, answers a chunk or the end of the inner stream with a
\* length-mismatch error, and does not return the end
StillMismatch ==
    /\ Len(inner_hist') = Len(inner_hist) + 1
    /\ ~panicked'
    /\ Len(fls_out') = Len(fls_out) + 1
    /\ fls_out'[Len(fls_out')].poll # "None"
    /\ inner_hist'[Len(inner_hist')].poll \in {"Ok", "None"}
          => fls_out'[Len(fls_out')] = Mismatch(length, bytes_read')

\* C18 as stated: once the counter has exceeded the declared length, every
\* later poll polls the inner stream, yields a length-mismatch error when
\* the inner stream yields a chunk or the end, and never yields the end.
C18_KeepsFailing_AsStated ==
    [][(bytes_read > length /\ <<inner_hist, fls_out, panicked>>' # <<inner_hist, fls_out, panicked>>)
         => StillMismatch]_vars

\* C18 amended: the same, while the lengths of the chunks received from
\* the inner stream sum to a value that fits the counter's word.
C18_KeepsFailing ==
    [][(bytes_read > length /\ <<inner_hist, fls_out, panicked>>' # <<inner_hist, fls_out, panicked>>
          /\ TotalLen(inner_hist') <= U64_MAX)
         => StillMismatch]_vars

\* C18 witness: the first chunk took the counter above the declared
\* length; the next chunk and then the end of the inner stream were each
\* answered by a length-mismatch error.
C18_Witness ==
    /\ Len(fls_out) = 3
    /\ inner_hist[1].poll = "Ok" /\ inner_hist[2].poll = "Ok"
    /\ inner_hist[3] = ReadyNone
    /\ Len(inner_hist[1].val) > length
    /\ TotalLen(inner_hist) <= U64_MAX
    /\ fls_out[2] = Mismatch(length, TotalLen(inner_hist))
    /\ fls_out[3] = Mismatch(length, TotalLen(inner_hist))

====
